---- MODULE Spec2Model ----
(***************************************************************************)
(* The in-memory bank ledger of source.c: accounts with a balance and a    *)
(* fixed-capacity transaction log, deposit / withdraw / transfer, the      *)
(* linear lookup by account number, and the driver simulateOperations.     *)
(*                                                                          *)
(* A BankAccount* is an address of the heap, NULL is 0; the heap maps the   *)
(* allocated addresses to the accounts they hold.  A double is a record:    *)
(* a finite value (an integer, on which binary64 arithmetic is exact), an   *)
(* infinity or NaN, with the IEEE 754 rules for comparison and addition.    *)
(* A C string is a sequence of one-character strings.  Dereferencing NULL   *)
(* ends the process (crashed).                                              *)
(***************************************************************************)
EXTENDS Integers, Sequences, FiniteSets

VARIABLES
    accounts,   \* BankAccount* accounts[3]: the registry, a pointer per slot
    heap,       \* the allocated BankAccount objects, by address
    caller,     \* the caller of the API: its plan and its position in it
    crashed,    \* the process was ended by a NULL dereference
    nOk,        \* history: per account, number of deposit/withdraw calls that returned 0
    last        \* the most recent API call: its arguments, results and callee results

vars == <<accounts, heap, caller, crashed, nOk, last>>

----------------------------------------------------------------------------
(* Program constants *)

MAX_TRANSACTIONS == 10
NAME_LENGTH == 5
DESCRIPTION_LENGTH == 10
totalAccounts == 3

DEPOSIT == "DEPOSIT"
WITHDRAWAL == "WITHDRAWAL"
NULL == 0
NUL == "\\0"

(* Bounds of the exploration *)

MaxCalls == 2       \* API calls an exploring caller makes
MaxAmount == 1      \* finite amounts of an exploring caller range over -1 .. MaxAmount
PrefillLen == 9     \* calls the filling caller first makes on the first account

----------------------------------------------------------------------------
(* double (IEEE 754 binary64).  A finite value is hi * 2^53 + lo with lo   *)
(* small: the integers up to 2^53, all of them representable, and the       *)
(* neighbourhood of the multiples of 2^53, where the representable values   *)
(* are the multiples of the unit in the last place                          *)

F(hi, lo) == [c |-> "fin", hi |-> hi, lo |-> lo]
D(n) == F(0, n)
Big == F(1, 0)
NaN == [c |-> "nan", hi |-> 0, lo |-> 0]
PosInf == [c |-> "inf", hi |-> 0, lo |-> 1]

(* -a *)
dNeg(a) == [a EXCEPT !.hi = 0 - @, !.lo = 0 - @]

(* the unit in the last place of the binade [h * 2^53, 2h * 2^53) and above: *)
(* 2 for h = 1, 4 for h in 2..3, 8 for h in 4..7, ...                        *)
RECURSIVE Ulp(_)
Ulp(h) == IF h <= 1 THEN 2 ELSE 2 * Ulp(h \div 2)

(* round-to-nearest, ties-to-even, of the non-negative real hi * 2^53 + lo  *)
RoundMagnitude(hi, lo) ==
    IF hi = 0 \/ (hi = 1 /\ lo < 0)
    THEN F(hi, lo)
    ELSE LET ulp == IF lo >= 0 THEN Ulp(hi) ELSE Ulp(hi - 1)
             q == lo \div ulp
             r == lo % ulp
             up == 2 * r > ulp \/ (2 * r = ulp /\ q % 2 = 1)
         IN  F(hi, ulp * (IF up THEN q + 1 ELSE q))

(* the double nearest to the real hi * 2^53 + lo *)
Round(hi, lo) ==
    IF hi < 0 \/ (hi = 0 /\ lo < 0)
    THEN dNeg(RoundMagnitude(0 - hi, 0 - lo))
    ELSE RoundMagnitude(hi, lo)

(* a <= b on doubles: false when either is NaN *)
dLe(a, b) ==
    IF a.c = "nan" \/ b.c = "nan" THEN FALSE
    ELSE IF a.c = "inf" THEN a.lo = -1 \/ b = PosInf
    ELSE IF b.c = "inf" THEN b.lo = 1
    ELSE a.hi < b.hi \/ (a.hi = b.hi /\ a.lo <= b.lo)

(* a < b on doubles: false when either is NaN *)
dLt(a, b) ==
    IF a.c = "nan" \/ b.c = "nan" THEN FALSE
    ELSE ~ dLe(b, a)

(* a + b on doubles *)
dAdd(a, b) ==
    IF a.c = "nan" \/ b.c = "nan" THEN NaN
    ELSE IF a.c = "inf" /\ b.c = "inf" THEN (IF a.lo = b.lo THEN a ELSE NaN)
    ELSE IF a.c = "inf" THEN a
    ELSE IF b.c = "inf" THEN b
    ELSE Round(a.hi + b.hi, a.lo + b.lo)

(* a - b on doubles *)
dSub(a, b) == dAdd(a, dNeg(b))

Amounts == {D(n) : n \in -1 .. MaxAmount} \cup {Big, NaN, PosInf}
AccountNumbers == {1001, 1002, 1003}
Slots == 1 .. totalAccounts

(* The string literals of the program *)

Alice == <<"A", "l", "i", "c", "e">>
Bob == <<"B", "o", "b">>
Charlie == <<"C", "h", "a", "r", "l", "i", "e">>
Initial == <<"I", "n", "i", "t", "i", "a", "l">>
withdrawal == <<"w", "i", "t", "h", "d", "r", "a", "w", "a", "l">>
shopping == <<"s", "h", "o", "p", "p", "i", "n", "g">>
TransferTo == <<"T", "r", "a", "n", "s", "f", "e", "r", " ", "t", "o">>
TransferFrom == <<"T", "r", "a", "n", "s", "f", "e", "r", " ", "f", "r", "o", "m">>

----------------------------------------------------------------------------
(* strncpy(dst, src, n): exactly n cells are written: the first n characters *)
(* of src, padded with NUL when src is shorter; no terminator when it is not *)
strncpy(src, n) ==
    [k \in 1 .. n |-> IF k <= Len(src) THEN src[k] ELSE NUL]

(* malloc: a fresh address, or NULL when the allocation fails *)
malloc(h, ok) ==
    IF ok THEN Cardinality(DOMAIN h) + 1 ELSE NULL

(* createAccount, given what malloc returned: the pointer returned and the  *)
(* heap.  The transactions array is allocated but holds no record; the      *)
(* sequence holds the slots below transactionCount, the only ones read      *)
createAccount(h, newAccount, accountNumber, holderName) ==
    IF newAccount = NULL
    THEN [ptr |-> NULL, heap |-> h]
    ELSE [ptr |-> newAccount,
          heap |-> [a \in DOMAIN h \cup {newAccount} |->
                      IF a = newAccount
                      THEN [accountNumber |-> accountNumber,
                            holderName |-> strncpy(holderName, NAME_LENGTH),
                            balance |-> D(0),
                            transactions |-> <<>>,
                            transactionCount |-> 0]
                      ELSE h[a]]]

(* addTransaction on the account object *)
addTransaction(account, type, amount, description) ==
    IF account.transactionCount >= MAX_TRANSACTIONS
    THEN account
    ELSE [account EXCEPT
            !.transactions = Append(@, [type |-> type,
                                        amount |-> amount,
                                        description |-> strncpy(description, DESCRIPTION_LENGTH)]),
            !.transactionCount = @ + 1]

(* a call that did not return a value: not reached, or ended by the crash *)
NoReturn == 1

(* deposit(account, ...), account a pointer: the value returned, the heap   *)
(* after the call, and whether account->balance dereferenced NULL           *)
deposit(h, account, amount, description) ==
    IF dLe(amount, D(0))
    THEN [ret |-> -1, heap |-> h, crashed |-> FALSE]
    ELSE IF account = NULL
    THEN [ret |-> NoReturn, heap |-> h, crashed |-> TRUE]
    ELSE [ret |-> 0,
          heap |-> [h EXCEPT ![account] =
                      addTransaction([@ EXCEPT !.balance = dAdd(@, amount)],
                                     DEPOSIT, amount, description)],
          crashed |-> FALSE]

withdraw(h, account, amount, description) ==
    IF dLe(amount, D(0))
    THEN [ret |-> -1, heap |-> h, crashed |-> FALSE]
    ELSE IF account = NULL
    THEN [ret |-> NoReturn, heap |-> h, crashed |-> TRUE]
    ELSE IF dLt(h[account].balance, amount)
    THEN [ret |-> -1, heap |-> h, crashed |-> FALSE]
    ELSE [ret |-> 0,
          heap |-> [h EXCEPT ![account] =
                      addTransaction([@ EXCEPT !.balance = dSub(@, amount)],
                                     WITHDRAWAL, amount, description)],
          crashed |-> FALSE]

(* findAccount did not return: accounts[i]->accountNumber dereferenced NULL *)
SEGV == -1

(* the loop of findAccount from slot i on *)
RECURSIVE findAccountFrom(_, _, _, _, _)
findAccountFrom(h, accts, total, accountNumber, i) ==
    IF i > total THEN NULL
    ELSE IF accts[i] = NULL THEN SEGV
    ELSE IF h[accts[i]].accountNumber = accountNumber THEN accts[i]
    ELSE findAccountFrom(h, accts, total, accountNumber, i + 1)

(* Variant: the scan runs from the last slot down, so the last match wins *)
RECURSIVE findAccountDownFrom(_, _, _, _)
findAccountDownFrom(h, accts, accountNumber, i) ==
    IF i < 1 THEN NULL
    ELSE IF accts[i] = NULL THEN SEGV
    ELSE IF h[accts[i]].accountNumber = accountNumber THEN accts[i]
    ELSE findAccountDownFrom(h, accts, accountNumber, i - 1)

findAccount_lastMatch(h, accts, total, accountNumber) ==
    findAccountDownFrom(h, accts, accountNumber, total)

findAccount(h, accts, total, accountNumber) ==
    findAccountFrom(h, accts, total, accountNumber, 1)

(* what transfer leaves when it returns before calling withdraw *)
TransferReturned(h, fromAccount, toAccount) ==
    [heap |-> h, fromAccount |-> fromAccount, toAccount |-> toAccount,
     wRet |-> NoReturn, dRet |-> NoReturn, crashed |-> FALSE]

(* what transfer leaves when a lookup dereferenced NULL *)
TransferCrashed(h, fromAccount, toAccount) ==
    [heap |-> h, fromAccount |-> fromAccount, toAccount |-> toAccount,
     wRet |-> NoReturn, dRet |-> NoReturn, crashed |-> TRUE]

(* Variant: the lookups are tested with && for ||, so a transfer whose      *)
(* destination is missing still withdraws from the source                    *)
transfer_andForOr(h, accts, total, fromAccNum, toAccNum, amount) ==
    LET fromAccount == findAccount(h, accts, total, fromAccNum)
        toAccount == IF fromAccount = SEGV THEN NULL
                     ELSE findAccount(h, accts, total, toAccNum)
    IN  IF fromAccount = SEGV \/ toAccount = SEGV
        THEN TransferCrashed(h, fromAccount, toAccount)
        ELSE IF fromAccount = NULL /\ toAccount = NULL
        THEN TransferReturned(h, fromAccount, toAccount)
        ELSE LET w == withdraw(h, fromAccount, amount, TransferTo)
             IN  IF w.ret = 0
                 THEN LET d == deposit(w.heap, toAccount, amount, TransferFrom)
                      IN  [heap |-> d.heap,
                           fromAccount |-> fromAccount, toAccount |-> toAccount,
                           wRet |-> w.ret, dRet |-> d.ret, crashed |-> d.crashed]
                 ELSE [heap |-> w.heap,
                       fromAccount |-> fromAccount, toAccount |-> toAccount,
                       wRet |-> w.ret, dRet |-> NoReturn, crashed |-> w.crashed]

(* transfer: the heap after the call, the two lookups, the values withdraw  *)
(* and deposit returned, and whether a NULL was dereferenced                 *)
transfer(h, accts, total, fromAccNum, toAccNum, amount) ==
    LET fromAccount == findAccount(h, accts, total, fromAccNum)
        toAccount == IF fromAccount = SEGV THEN NULL
                     ELSE findAccount(h, accts, total, toAccNum)
    IN  IF fromAccount = SEGV \/ toAccount = SEGV
        THEN TransferCrashed(h, fromAccount, toAccount)
        ELSE IF fromAccount = NULL \/ toAccount = NULL
        THEN TransferReturned(h, fromAccount, toAccount)
        ELSE LET w == withdraw(h, fromAccount, amount, TransferTo)
             IN  IF w.ret = 0
                 THEN LET d == deposit(w.heap, toAccount, amount, TransferFrom)
                      IN  [heap |-> d.heap,
                           fromAccount |-> fromAccount, toAccount |-> toAccount,
                           wRet |-> w.ret, dRet |-> d.ret, crashed |-> d.crashed]
                 ELSE [heap |-> w.heap,
                       fromAccount |-> fromAccount, toAccount |-> toAccount,
                       wRet |-> w.ret, dRet |-> NoReturn, crashed |-> w.crashed]

----------------------------------------------------------------------------
(* The callers of the API.  A call names the operation and its arguments;   *)
(* deposit and withdraw are passed the pointer held by a slot of accounts   *)

DepositCall(slot, amount, description) ==
    [op |-> "deposit", slot |-> slot, fromAccNum |-> 0, toAccNum |-> 0,
     amount |-> amount, description |-> description]

WithdrawCall(slot, amount, description) ==
    [op |-> "withdraw", slot |-> slot, fromAccNum |-> 0, toAccNum |-> 0,
     amount |-> amount, description |-> description]

TransferCall(fromAccNum, toAccNum, amount) ==
    [op |-> "transfer", slot |-> 0, fromAccNum |-> fromAccNum, toAccNum |-> toAccNum,
     amount |-> amount, description |-> <<>>]

FindAccountCall(accountNumber) ==
    [op |-> "findAccount", slot |-> 0, fromAccNum |-> accountNumber, toAccNum |-> 0,
     amount |-> D(0), description |-> <<>>]

(* the calls of simulateOperations, in order *)
MainScript ==
    << DepositCall(1, D(500), Initial),
       DepositCall(2, D(1000), Initial),
       DepositCall(3, D(750), Initial),
       WithdrawCall(2, D(200), withdrawal),
       WithdrawCall(3, D(50), shopping),
       TransferCall(1001, 1003, D(150)) >>

(* the k-th call of a caller filling the log of a slot: deposits of 2 and   *)
(* withdrawals of 1 in turn, every one of which succeeds                    *)
FillCall(slot, k) ==
    IF k % 2 = 1
    THEN DepositCall(slot, D(2), Initial)
    ELSE WithdrawCall(slot, D(1), withdrawal)

(* a caller that brings the first log one record short of its capacity and  *)
(* the second one record past it, before it explores                        *)
FillScript ==
    [k \in 1 .. (2 * PrefillLen + 1) |->
        IF k <= PrefillLen THEN FillCall(1, k) ELSE FillCall(2, k - PrefillLen)]

(* the calls an exploring caller chooses from *)
ExploreCalls ==
    {DepositCall(i, amount, Initial) : i \in Slots, amount \in Amounts}
    \cup {WithdrawCall(i, amount, withdrawal) : i \in Slots, amount \in Amounts}
    \cup {TransferCall(f, t, amount) : f \in AccountNumbers, t \in AccountNumbers,
                                      amount \in Amounts}
    \cup {FindAccountCall(n) : n \in AccountNumbers}

(* the calls the caller may make next *)
NextCalls ==
    IF caller.plan = "main"
    THEN (IF caller.pc <= Len(MainScript) THEN {MainScript[caller.pc]} ELSE {})
    ELSE IF caller.plan = "fill"
    THEN {FillScript[caller.pc]}
    ELSE (IF caller.pc <= MaxCalls THEN ExploreCalls ELSE {})

(* the caller after a call *)
Advance ==
    IF caller.plan = "fill" /\ caller.pc = Len(FillScript)
    THEN [plan |-> "explore", pc |-> 1]
    ELSE [caller EXCEPT !.pc = @ + 1]

NoCall ==
    [op |-> "none", account |-> NULL, fromAccNum |-> 0, toAccNum |-> 0,
     amount |-> D(0), ret |-> NoReturn,
     fromAccount |-> NULL, toAccount |-> NULL, wRet |-> NoReturn, dRet |-> NoReturn]

(* The state after the three createAccount calls of simulateOperations,     *)
(* each of whose allocations may fail.  Callers other than the driver may   *)
(* also have registered the number 1001 a second time in the third slot     *)
Init ==
    \E ok1 \in BOOLEAN, ok2 \in BOOLEAN, ok3 \in BOOLEAN,
       third \in {1003, 1001}, plan \in {"main", "fill", "explore"} :
        /\ plan = "main" => third = 1003
        /\ LET h0 == [a \in {} |-> 0]
               c1 == createAccount(h0, malloc(h0, ok1), 1001, Alice)
               c2 == createAccount(c1.heap, malloc(c1.heap, ok2), 1002, Bob)
               c3 == createAccount(c2.heap, malloc(c2.heap, ok3), third, Charlie)
           IN  /\ accounts = <<c1.ptr, c2.ptr, c3.ptr>>
               /\ heap = c3.heap
               /\ nOk = [a \in DOMAIN c3.heap |-> 0]
        /\ caller = [plan |-> plan, pc |-> 1]
        /\ crashed = FALSE
        /\ last = NoCall

(* a successful call on the account at address a is counted *)
Counted(n, a, ret) ==
    IF ret = 0 THEN [n EXCEPT ![a] = @ + 1] ELSE n

(* deposit(accounts[slot], amount, description) *)
Deposit ==
    /\ ~ crashed
    /\ \E c \in NextCalls :
        /\ c.op = "deposit"
        /\ \E r \in {deposit(heap, accounts[c.slot], c.amount, c.description)} :
            /\ heap' = r.heap
            /\ crashed' = r.crashed
            /\ nOk' = Counted(nOk, accounts[c.slot], r.ret)
            /\ last' = [NoCall EXCEPT !.op = "deposit", !.account = accounts[c.slot],
                                      !.amount = c.amount, !.ret = r.ret]
    /\ caller' = Advance
    /\ UNCHANGED accounts

(* withdraw(accounts[slot], amount, description) *)
Withdraw ==
    /\ ~ crashed
    /\ \E c \in NextCalls :
        /\ c.op = "withdraw"
        /\ \E r \in {withdraw(heap, accounts[c.slot], c.amount, c.description)} :
            /\ heap' = r.heap
            /\ crashed' = r.crashed
            /\ nOk' = Counted(nOk, accounts[c.slot], r.ret)
            /\ last' = [NoCall EXCEPT !.op = "withdraw", !.account = accounts[c.slot],
                                      !.amount = c.amount, !.ret = r.ret]
    /\ caller' = Advance
    /\ UNCHANGED accounts

(* transfer(accounts, totalAccounts, fromAccNum, toAccNum, amount) *)
Transfer ==
    /\ ~ crashed
    /\ \E c \in NextCalls :
        /\ c.op = "transfer"
        /\ \E r \in {transfer(heap, accounts, totalAccounts,
                              c.fromAccNum, c.toAccNum, c.amount)} :
            /\ heap' = r.heap
            /\ crashed' = r.crashed
            /\ nOk' = Counted(Counted(nOk, r.fromAccount, r.wRet), r.toAccount, r.dRet)
            /\ last' = [NoCall EXCEPT !.op = "transfer",
                                      !.fromAccNum = c.fromAccNum, !.toAccNum = c.toAccNum,
                                      !.amount = c.amount,
                                      !.fromAccount = r.fromAccount,
                                      !.toAccount = r.toAccount,
                                      !.wRet = r.wRet, !.dRet = r.dRet]
    /\ caller' = Advance
    /\ UNCHANGED accounts

(* findAccount(accounts, totalAccounts, accountNumber) *)
FindAccount ==
    /\ ~ crashed
    /\ \E c \in NextCalls :
        /\ c.op = "findAccount"
        /\ \E r \in {findAccount(heap, accounts, totalAccounts, c.fromAccNum)} :
            /\ crashed' = (r = SEGV)
            /\ last' = [NoCall EXCEPT !.op = "findAccount",
                                      !.fromAccNum = c.fromAccNum, !.ret = r]
    /\ caller' = Advance
    /\ UNCHANGED <<accounts, heap, nOk>>

(* the loop of simulateOperations that prints every account: the two print  *)
(* functions have empty bodies                                              *)
Report ==
    /\ ~ crashed
    /\ caller.plan = "main"
    /\ caller.pc = Len(MainScript) + 1
    /\ caller' = Advance
    /\ last' = [NoCall EXCEPT !.op = "report"]
    /\ UNCHANGED <<accounts, heap, crashed, nOk>>

(* the loop of simulateOperations that frees every account; free(NULL) does *)
(* nothing.  The pointers of accounts are not used again                     *)
Free ==
    /\ ~ crashed
    /\ caller.plan = "main"
    /\ caller.pc = Len(MainScript) + 2
    /\ caller' = Advance
    /\ heap' = [a \in {} |-> 0]
    /\ nOk' = [a \in {} |-> 0]
    /\ last' = [NoCall EXCEPT !.op = "free"]
    /\ UNCHANGED <<accounts, crashed>>

Next ==
    \/ Deposit
    \/ Withdraw
    \/ Transfer
    \/ FindAccount
    \/ Report
    \/ Free

Spec == Init /\ [][Next]_vars

----------------------------------------------------------------------------
(* Vocabulary of the properties *)

(* a == b on doubles: false when either is NaN *)
dEq(a, b) == dLe(a, b) /\ dLe(b, a)

(* the accounts: the allocated objects *)
Accounts == DOMAIN heap

(* every slot of the registry points to an account *)
AllAccounts == \A i \in Slots : accounts[i] # NULL

(* the sum, in double arithmetic and in log order, of the recorded amounts  *)
(* of one type                                                               *)
RECURSIVE SumOfType(_, _)
SumOfType(log, type) ==
    IF log = <<>> THEN D(0)
    ELSE LET rest == SumOfType(SubSeq(log, 1, Len(log) - 1), type)
             t == log[Len(log)]
         IN  IF t.type = type THEN dAdd(rest, t.amount) ELSE rest

(* the sum of the balances of the accounts of the registry, in slot order *)
RECURSIVE SumBalances(_, _, _)
SumBalances(h, accts, n) ==
    IF n = 0 THEN D(0)
    ELSE IF accts[n] = NULL THEN SumBalances(h, accts, n - 1)
    ELSE dAdd(SumBalances(h, accts, n - 1), h[accts[n]].balance)

(* the slots whose account has the number *)
Matches(accountNumber) ==
    {i \in Slots : accounts[i] # NULL /\ heap[accounts[i]].accountNumber = accountNumber}

(* the account of the lowest matching slot, NULL when there is none *)
FirstMatch(accountNumber) ==
    IF Matches(accountNumber) = {} THEN NULL
    ELSE accounts[CHOOSE i \in Matches(accountNumber) :
                    \A j \in Matches(accountNumber) : i <= j]

(* the log of the account at a kept its records and gained one of the type  *)
(* and amount                                                                *)
GainedRecord(a, type, amount) ==
    /\ heap'[a].transactionCount = heap[a].transactionCount + 1
    /\ SubSeq(heap'[a].transactions, 1, heap[a].transactionCount) = heap[a].transactions
    /\ heap'[a].transactions[heap'[a].transactionCount].type = type
    /\ heap'[a].transactions[heap'[a].transactionCount].amount = amount

(* the log of the account at a is as it was *)
LogKept(a) ==
    /\ heap'[a].transactionCount = heap[a].transactionCount
    /\ heap'[a].transactions = heap[a].transactions

UnderCapacity(a) == heap[a].transactionCount < MAX_TRANSACTIONS

(* the step was a call of deposit or withdraw on an account *)
CalledOnAccount(op) == last'.op = op /\ last'.account # NULL

(* the step was a call of transfer whose two lookups found accounts *)
TransferFoundBoth ==
    /\ last'.op = "transfer"
    /\ last'.fromAccount \notin {NULL, SEGV}
    /\ last'.toAccount \notin {NULL, SEGV}

----------------------------------------------------------------------------
(* C1: for every account on which at most MAX_TRANSACTIONS calls succeeded, *)
(* the balance equals the sum of the recorded DEPOSIT amounts minus the sum *)
(* of the recorded WITHDRAWAL amounts.                                       *)
C1_BalanceIsNetOfLog ==
    \A a \in Accounts :
        nOk[a] <= MAX_TRANSACTIONS =>
            dEq(heap[a].balance,
                dSub(SumOfType(heap[a].transactions, DEPOSIT),
                     SumOfType(heap[a].transactions, WITHDRAWAL)))

(* C2: in every reachable state, whatever the amounts of the calls, every   *)
(* account's balance is greater than or equal to 0.                          *)
C2_BalanceNeverNegative ==
    \A a \in Accounts : dLe(D(0), heap[a].balance)

C3_DepositStep ==
    CalledOnAccount("deposit") =>
        LET a == last'.account
            amount == last'.amount
        IN  /\ dLe(amount, D(0)) => last'.ret = -1 /\ heap' = heap
            /\ dLt(D(0), amount) =>
                /\ last'.ret = 0
                /\ dEq(heap'[a].balance, dAdd(heap[a].balance, amount))

(* C3: a deposit with amount <= 0 returns -1 and leaves balance, count and  *)
(* records unchanged; with amount > 0 it returns 0 and the balance is the   *)
(* balance before plus the amount.                                           *)
C3_DepositContract == [][C3_DepositStep]_vars

C4_WithdrawStep ==
    CalledOnAccount("withdraw") =>
        LET a == last'.account
            amount == last'.amount
            rejected == dLe(amount, D(0)) \/ dLt(heap[a].balance, amount)
        IN  /\ rejected => last'.ret = -1 /\ heap' = heap
            /\ ~ rejected =>
                /\ last'.ret = 0
                /\ dEq(heap'[a].balance, dSub(heap[a].balance, amount))

(* C4: a withdraw with amount <= 0 or amount > balance returns -1 and       *)
(* leaves balance, count and records unchanged; in every other case it      *)
(* returns 0 and the balance is the balance before minus the amount.         *)
C4_WithdrawContract == [][C4_WithdrawStep]_vars

C5_OverflowStep ==
    /\ CalledOnAccount("deposit") /\ ~ UnderCapacity(last'.account)
       /\ dLt(D(0), last'.amount) =>
            /\ last'.ret = 0
            /\ dEq(heap'[last'.account].balance,
                   dAdd(heap[last'.account].balance, last'.amount))
            /\ LogKept(last'.account)
    /\ CalledOnAccount("withdraw") /\ ~ UnderCapacity(last'.account)
       /\ dLt(D(0), last'.amount)
       /\ dLe(last'.amount, heap[last'.account].balance) =>
            /\ last'.ret = 0
            /\ dEq(heap'[last'.account].balance,
                   dSub(heap[last'.account].balance, last'.amount))
            /\ LogKept(last'.account)

(* C5: on an account holding MAX_TRANSACTIONS records, a deposit or         *)
(* withdraw that passes validation returns 0 and changes the balance by the *)
(* amount, while the count stays and the records are left as they were.      *)
C5_SilentDropAtCapacity == [][C5_OverflowStep]_vars

C6_TransferStep ==
    /\ TransferFoundBoth
    /\ last'.fromAccount # last'.toAccount
    /\ dLt(D(0), last'.amount)
    /\ dLe(last'.amount, heap[last'.fromAccount].balance)
    => LET f == last'.fromAccount
           t == last'.toAccount
           amount == last'.amount
       IN  /\ dEq(heap'[f].balance, dSub(heap[f].balance, amount))
           /\ dEq(heap'[t].balance, dAdd(heap[t].balance, amount))
           /\ IF UnderCapacity(f) THEN GainedRecord(f, WITHDRAWAL, amount) ELSE LogKept(f)
           /\ IF UnderCapacity(t) THEN GainedRecord(t, DEPOSIT, amount) ELSE LogKept(t)

(* C6: a transfer whose two ids are found and whose source balance is at    *)
(* least the amount decreases the source balance by the amount, increases   *)
(* the destination balance by it, and adds one record to each account under *)
(* capacity; stated here for the calls with amount > 0 between two          *)
(* different accounts only.                                                  *)
C6_TransferMovesFunds == [][C6_TransferStep]_vars

C7_MissingStep ==
    /\ last'.op = "transfer"
    /\ AllAccounts
    /\ FirstMatch(last'.fromAccNum) = NULL \/ FirstMatch(last'.toAccNum) = NULL
    => /\ ~ crashed'
       /\ heap' = heap
       /\ last'.wRet = NoReturn
       /\ last'.dRet = NoReturn

(* C7: a transfer in which fromId or toId matches no account of the         *)
(* registry returns without a call of withdraw or deposit and leaves the    *)
(* balance, count and records of every account unchanged.                    *)
C7_MissingAccountNoOp == [][C7_MissingStep]_vars

C7_Witness ==
    /\ last.op = "transfer"
    /\ AllAccounts
    /\ last.fromAccount \notin {NULL, SEGV}
    /\ FirstMatch(last.toAccNum) = NULL
    /\ dLt(D(0), last.amount)
    /\ dLe(last.amount, heap[last.fromAccount].balance)
    /\ ~ crashed

C8_LookupResult ==
    /\ last.op = "findAccount" =>
        /\ AllAccounts => last.ret # SEGV
        /\ last.ret # SEGV => last.ret = FirstMatch(last.fromAccNum)
    /\ last.op = "transfer" =>
        /\ AllAccounts => ~ crashed
        /\ ~ crashed =>
            /\ last.fromAccount = FirstMatch(last.fromAccNum)
            /\ last.toAccount = FirstMatch(last.toAccNum)

C8_LookupStep ==
    last'.op = "findAccount" => heap' = heap /\ accounts' = accounts

(* C8: findAccount returns the account of the lowest slot whose number is   *)
(* the requested one, NULL exactly when no slot matches, and modifies no    *)
(* account; transfer acts on the first matches of fromId and toId.           *)
C8_FirstMatchWins == [](C8_LookupResult) /\ [][C8_LookupStep]_vars

C8_Witness ==
    /\ last.op = "findAccount"
    /\ AllAccounts
    /\ Cardinality(Matches(last.fromAccNum)) > 1
    /\ last.ret = accounts[1]

C9_TransferStep ==
    /\ last'.op = "transfer"
    /\ ~ crashed'
    /\ last'.fromAccount # last'.toAccount \/ last'.fromAccount = NULL
    => /\ last'.wRet = 0 => last'.dRet = 0
       /\ \/ heap' = heap
          \/ /\ dEq(heap'[last'.fromAccount].balance,
                    dSub(heap[last'.fromAccount].balance, last'.amount))
             /\ dEq(heap'[last'.toAccount].balance,
                    dAdd(heap[last'.toAccount].balance, last'.amount))
       /\ dEq(SumBalances(heap', accounts, totalAccounts),
              SumBalances(heap, accounts, totalAccounts))

(* C9: whenever the withdraw of a transfer succeeds its deposit succeeds;   *)
(* after the call either both balances moved by the amount or no account    *)
(* changed, and the sum of the balances of the registry is the same as      *)
(* before; stated here for the calls between two different accounts only.    *)
C9_TransferAllOrNothing == [][C9_TransferStep]_vars

C10_LogBounded ==
    \A a \in Accounts :
        /\ heap[a].transactionCount \in 0 .. MAX_TRANSACTIONS
        /\ Len(heap[a].transactions) = heap[a].transactionCount
        /\ \A k \in 1 .. heap[a].transactionCount :
            dLt(D(0), heap[a].transactions[k].amount)

C10_LogStep ==
    \A a \in Accounts \cap DOMAIN heap' :
        /\ heap'[a].transactionCount >= heap[a].transactionCount
        /\ heap'[a].transactionCount - heap[a].transactionCount <= nOk'[a] - nOk[a]
        /\ SubSeq(heap'[a].transactions, 1, heap[a].transactionCount) = heap[a].transactions

(* C10: in every state 0 <= transactionCount <= MAX_TRANSACTIONS and every  *)
(* recorded amount is > 0; across a step the count of an account never      *)
(* decreases, grows by at most the number of calls on it that succeeded,    *)
(* and the records below the count stay as they were.                        *)
C10_LogAppendOnly == [](C10_LogBounded) /\ [][C10_LogStep]_vars

====
